---- MODULE Spec2Model ----
(***************************************************************************)
(* svg2glif: conversion of an SVG document into a GLIF glyph               *)
(* (src/src/lib.rs).  The document walker, the path-to-contour converter,  *)
(* the coordinate mapper and the anchor extractor are modelled as a state  *)
(* machine that runs one conversion call of convert_svg_to_glif_file.      *)
(*                                                                         *)
(* Numbers.  The code computes in f32/f64.  The model computes exactly:    *)
(* coordinates, transform coefficients, lengths, em size and descent are   *)
(* integers and the scale em_size / svg_height is a fraction [n, d].  All  *)
(* inputs of the model are values on which the f32 computation is exact    *)
(* (small integers, scale an integer or a dyadic fraction).                *)
(***************************************************************************)
EXTENDS Integers, Sequences, FiniteSets

(***************************************************************************)
(* Bound of the model: the longest generated path segment stream.          *)
(***************************************************************************)
MaxSegs == 4

----------------------------------------------------------------------------
(* Arithmetic *)

\* em_size / svg_height (lib.rs:87) as an exact fraction with d > 0
Div(em_size, svg_height) == [n |-> em_size, d |-> svg_height]

\* v * scale for an integer v
Mul(v, scale) == [n |-> v * scale.n, d |-> scale.d]

\* f32::round: the nearest integer, halves rounded away from zero
round(q) ==
  IF q.n >= 0 THEN (2 * q.n + q.d) \div (2 * q.d)
  ELSE -((2 * (-q.n) + q.d) \div (2 * q.d))

----------------------------------------------------------------------------
(* Transforms *)

\* svgtypes::Transform::default()
Identity == [a |-> 1, b |-> 0, c |-> 0, d |-> 1, e |-> 0, f |-> 0]

\* a variant of multiply with the operands' roles exchanged
multiply_Swapped(ts1, ts2) ==
  [a |-> ts2.a * ts1.a + ts2.c * ts1.b,
   b |-> ts2.b * ts1.a + ts2.d * ts1.b,
   c |-> ts2.a * ts1.c + ts2.c * ts1.d,
   d |-> ts2.b * ts1.c + ts2.d * ts1.d,
   e |-> ts2.a * ts1.e + ts2.c * ts1.f + ts2.e,
   f |-> ts2.b * ts1.e + ts2.d * ts1.f + ts2.f]

multiply(ts1, ts2) ==
  [a |-> ts1.a * ts2.a + ts1.c * ts2.b,
   b |-> ts1.b * ts2.a + ts1.d * ts2.b,
   c |-> ts1.a * ts2.c + ts1.c * ts2.d,
   d |-> ts1.b * ts2.c + ts1.d * ts2.d,
   e |-> ts1.a * ts2.e + ts1.c * ts2.f + ts1.e,
   f |-> ts1.b * ts2.e + ts1.d * ts2.f + ts1.f]

apply_transform(transform, x, y) ==
  [x |-> transform.a * x + transform.c * y + transform.e,
   y |-> transform.b * x + transform.d * y + transform.f]

----------------------------------------------------------------------------
(* Coordinate mapper *)

\* a variant of svg_to_ufo that clamps negative results to zero
svg_to_ufo_Clamped(sx, sy, svg_height, descent, scale) ==
  LET x == round(Mul(sx, scale))
      y == round(Mul(svg_height - descent - sy, scale))
  IN  [x |-> IF x < 0 THEN 0 ELSE x, y |-> IF y < 0 THEN 0 ELSE y]

svg_to_ufo(sx, sy, svg_height, descent, scale) ==
  LET x == Mul(sx, scale)
      y == Mul(svg_height - descent - sy, scale)
  IN  [x |-> round(x), y |-> round(y)]

\* parse_length: a length attribute is given by what Length::from_str makes
\* of it: parses = FALSE for a parse error, else a number and a unit
parse_length(len) ==
  IF ~len.parses THEN [ok |-> FALSE, v |-> 0]
  ELSE IF len.unit \in {"None", "Px"} THEN [ok |-> TRUE, v |-> len.number]
  ELSE [ok |-> FALSE, v |-> 0]

----------------------------------------------------------------------------
(* Path-to-contour converter: the arms of the segment loop.  st is the pair *)
(* of locals [contours, current_contour]; env holds the parameters          *)
(* [svg_height, descent, scale, transform] of process_path_data.            *)

\* norad::ContourPoint::new(x, y, typ, smooth, None, None)
ContourPoint(p, typ, smooth) == [x |-> p.x, y |-> p.y, typ |-> typ, smooth |-> smooth]

\* apply_transform followed by svg_to_ufo, as every arm does for each point
MapPoint(env, x, y) ==
  LET t == apply_transform(env.transform, x, y)
  IN  svg_to_ufo(t.x, t.y, env.svg_height, env.descent, env.scale)

\* a variant of ArmMoveTo that discards a buffer of a single point
ArmMoveTo_DropsSinglePoint(st, seg, env) ==
  LET flushed == IF Len(st.current_contour) > 1
                 THEN Append(st.contours, st.current_contour)
                 ELSE st.contours
  IN  [contours |-> flushed,
       current_contour |-> <<ContourPoint(MapPoint(env, seg.x, seg.y), "Curve", TRUE)>>]

ArmMoveTo(st, seg, env) ==
  LET flushed == IF st.current_contour # <<>>
                 THEN Append(st.contours, st.current_contour)
                 ELSE st.contours
  IN  [contours |-> flushed,
       current_contour |-> <<ContourPoint(MapPoint(env, seg.x, seg.y), "Curve", TRUE)>>]

ArmLineTo(st, seg, env) ==
  [contours |-> st.contours,
   current_contour |->
     Append(st.current_contour, ContourPoint(MapPoint(env, seg.x, seg.y), "Line", FALSE))]

\* a variant of ArmCurveTo whose second control point repeats the first
ArmCurveTo_RepeatControl(st, seg, env) ==
  [contours |-> st.contours,
   current_contour |->
     st.current_contour \o
       <<ContourPoint(MapPoint(env, seg.x1, seg.y1), "OffCurve", FALSE),
         ContourPoint(MapPoint(env, seg.x1, seg.y1), "OffCurve", FALSE),
         ContourPoint(MapPoint(env, seg.x, seg.y), "Curve", TRUE)>>]

ArmCurveTo(st, seg, env) ==
  [contours |-> st.contours,
   current_contour |->
     st.current_contour \o
       <<ContourPoint(MapPoint(env, seg.x1, seg.y1), "OffCurve", FALSE),
         ContourPoint(MapPoint(env, seg.x2, seg.y2), "OffCurve", FALSE),
         ContourPoint(MapPoint(env, seg.x, seg.y), "Curve", TRUE)>>]

\* a variant of ArmQuadratic that keeps the end point of the curve as a line
ArmQuadratic_AsLine(st, seg, env) ==
  [contours |-> st.contours,
   current_contour |->
     Append(st.current_contour, ContourPoint(MapPoint(env, seg.x, seg.y), "Line", FALSE))]

ArmQuadratic(st, seg, env) == st

\* a variant of ArmClosePath that closes the contour with a copy of its start
ArmClosePath_AddsPoint(st, seg, env) ==
  IF st.current_contour # <<>>
  THEN [contours |-> Append(st.contours, Append(st.current_contour, st.current_contour[1])),
        current_contour |-> <<>>]
  ELSE st

ArmClosePath(st, seg, env) ==
  IF st.current_contour # <<>>
  THEN [contours |-> Append(st.contours, st.current_contour), current_contour |-> <<>>]
  ELSE st

\* the match of lib.rs:267-351 on one parsed segment
Arm(st, seg, env) ==
  CASE seg.op = "M" -> ArmMoveTo(st, seg, env)
    [] seg.op = "L" -> ArmLineTo(st, seg, env)
    [] seg.op = "C" -> ArmCurveTo(st, seg, env)
    [] seg.op = "Q" -> ArmQuadratic(st, seg, env)
    [] seg.op = "Z" -> ArmClosePath(st, seg, env)

\* a variant of Flush that forgets the contour left in the buffer
Flush_DropsRemaining(st) == st.contours

\* "Add any remaining contour" (lib.rs:354-357)
Flush(st) ==
  IF st.current_contour # <<>> THEN Append(st.contours, st.current_contour)
  ELSE st.contours

\* a variant of ElideOne that keeps removing while the last point matches
RECURSIVE ElideOne_Repeat(_)
ElideOne_Repeat(points) ==
  IF Len(points) > 1
     /\ points[1].x = points[Len(points)].x
     /\ points[1].y = points[Len(points)].y
  THEN ElideOne_Repeat(SubSeq(points, 1, Len(points) - 1))
  ELSE points

\* "Remove duplicate last point if it matches the first point", one contour
ElideOne(points) ==
  IF Len(points) > 1
     /\ points[1].x = points[Len(points)].x
     /\ points[1].y = points[Len(points)].y
  THEN SubSeq(points, 1, Len(points) - 1)
  ELSE points

\* the loop of lib.rs:360-369 over all contours
Elide(contours) == [i \in 1..Len(contours) |-> ElideOne(contours[i])]

EmptySt == [contours |-> <<>>, current_contour |-> <<>>]

\* the segment loop run to its end on a stream without a parse error
RECURSIVE RunArms(_, _, _)
RunArms(st, segs, env) ==
  IF segs = <<>> THEN st
  ELSE RunArms(Arm(st, Head(segs), env), Tail(segs), env)

\* process_path_data as a function of its whole input: ok = FALSE when the
\* parser yields an error, else the contours returned
process_path_data(segs, env) ==
  IF \E i \in 1..Len(segs) : segs[i].op = "Err"
  THEN [ok |-> FALSE, contours |-> <<>>]
  ELSE [ok |-> TRUE, contours |-> Elide(Flush(RunArms(EmptySt, segs, env)))]

----------------------------------------------------------------------------
(* Anchor extractor *)

\* char::is_whitespace on the characters of the model
IsWhitespace(ch) == ch \in {" ", "TAB"}

\* str::trim
RECURSIVE TrimStart(_)
TrimStart(s) ==
  IF s # <<>> /\ IsWhitespace(Head(s)) THEN TrimStart(Tail(s)) ELSE s

RECURSIVE TrimEnd(_)
TrimEnd(s) ==
  IF s # <<>> /\ IsWhitespace(s[Len(s)]) THEN TrimEnd(SubSeq(s, 1, Len(s) - 1)) ELSE s

trim(s) == TrimEnd(TrimStart(s))

\* a variant of NameNew that only rejects the empty name
NameNew_AnyChars(s) == s # <<>>

\* norad::Name::new: a name is not empty and holds no control character
NameNew(s) == s # <<>> /\ \A i \in 1..Len(s) : s[i] # "TAB"

\* a variant of AttrOrZero that takes the number of a length whatever its unit
AttrOrZero_IgnoresUnit(attr) ==
  IF attr.present /\ attr.parses THEN attr.number ELSE 0

\* x / y of a text node: .attribute(..).and_then(|s| parse_length(s).ok()).unwrap_or(0.0)
AttrOrZero(attr) ==
  IF attr.present /\ parse_length(attr).ok THEN parse_length(attr).v ELSE 0

\* Option<Anchor> as a sequence of zero or one anchor
process_text_as_anchor(node, svg_height, descent, scale, transform) ==
  IF ~node.text.present THEN <<>>
  ELSE IF trim(node.text.chars) = <<>> THEN <<>>
  ELSE LET x == AttrOrZero(node.x)
           y == AttrOrZero(node.y)
           t == apply_transform(transform, x, y)
           u == svg_to_ufo(t.x, t.y, svg_height, descent, scale)
       IN  IF ~NameNew(trim(node.text.chars)) THEN <<>>
           ELSE <<[x |-> u.x, y |-> u.y, name |-> trim(node.text.chars)]>>

----------------------------------------------------------------------------
(* Inputs: attributes, path segments, nodes, documents *)

NoLength == [present |-> FALSE, parses |-> FALSE, number |-> 0, unit |-> "None"]
Length(number, unit) == [present |-> TRUE, parses |-> TRUE, number |-> number, unit |-> unit]
BadLength == [present |-> TRUE, parses |-> FALSE, number |-> 0, unit |-> "None"]

\* a transform attribute by what Transform::from_str makes of it
NoTransform == [present |-> FALSE, ok |-> FALSE, ts |-> Identity]
BadTransform == [present |-> TRUE, ok |-> FALSE, ts |-> Identity]
Transform(ts) == [present |-> TRUE, ok |-> TRUE, ts |-> ts]
Translate(e, f) == [a |-> 1, b |-> 0, c |-> 0, d |-> 1, e |-> e, f |-> f]
Matrix(a, b, c, d, e, f) == [a |-> a, b |-> b, c |-> c, d |-> d, e |-> e, f |-> f]

\* SimplePathSegment values, and the parser's Err item
SegM(x, y) == [op |-> "M", x1 |-> 0, y1 |-> 0, x2 |-> 0, y2 |-> 0, x |-> x, y |-> y]
SegL(x, y) == [op |-> "L", x1 |-> 0, y1 |-> 0, x2 |-> 0, y2 |-> 0, x |-> x, y |-> y]
SegC(x1, y1, x2, y2, x, y) ==
  [op |-> "C", x1 |-> x1, y1 |-> y1, x2 |-> x2, y2 |-> y2, x |-> x, y |-> y]
SegQ == [op |-> "Q", x1 |-> 1, y1 |-> 1, x2 |-> 0, y2 |-> 0, x |-> 2, y |-> 0]
SegZ == [op |-> "Z", x1 |-> 0, y1 |-> 0, x2 |-> 0, y2 |-> 0, x |-> 0, y |-> 0]
SegErr == [op |-> "Err", x1 |-> 0, y1 |-> 0, x2 |-> 0, y2 |-> 0, x |-> 0, y |-> 0]

NoD == [present |-> FALSE, segs |-> <<>>]
D(segs) == [present |-> TRUE, segs |-> segs]

NoText == [present |-> FALSE, chars |-> <<>>]
Text(chars) == [present |-> TRUE, chars |-> chars]

\* a roxmltree node: an element with the attributes the code reads, or a
\* non-element child (text, comment)
Element(tag, transform, d, text, x, y, children) ==
  [isElement |-> TRUE, tag |-> tag, transform |-> transform, d |-> d, text |-> text,
   x |-> x, y |-> y, width |-> NoLength, height |-> NoLength, children |-> children]

NonElement ==
  [isElement |-> FALSE, tag |-> "", transform |-> NoTransform, d |-> NoD, text |-> NoText,
   x |-> NoLength, y |-> NoLength, width |-> NoLength, height |-> NoLength,
   children |-> <<>>]

Path(transform, d, children) == Element("path", transform, d, NoText, NoLength, NoLength, children)
TextEl(transform, text, x, y) == Element("text", transform, NoD, text, x, y, <<>>)
Container(tag, transform, children) ==
  Element(tag, transform, NoD, NoText, NoLength, NoLength, children)

\* the root element: a container with width and height attributes
Root(tag, transform, width, height, children) ==
  [Container(tag, transform, children) EXCEPT !.width = width, !.height = height]

----------------------------------------------------------------------------
(* The inputs of the model.  An input is one call of                        *)
(* convert_svg_to_glif_file: whether the file can be read, whether it is    *)
(* well-formed XML, the document (a sequence of nodes, the root first, the  *)
(* children of a node given by their indices) and the configuration.        *)

Input(doc, em_size, descent) ==
  [readable |-> TRUE, wellformed |-> TRUE, doc |-> doc,
   em_size |-> em_size, descent |-> descent]

\* <svg width=w height=h><path d=segs/></svg>
PathDoc(w, h, segs) ==
  <<Root("svg", NoTransform, w, h, <<2>>), Path(NoTransform, D(segs), <<>>)>>

\* the segments the generated streams are made of
SegAlphabet ==
  {SegM(0, 0), SegM(1, 0),
   SegL(0, 0), SegL(1, 0), SegL(2, 1),
   SegC(-1, 3, 2, 1, 0, 0),
   SegQ, SegZ, SegErr}

\* the streams SimplifyingPathParser can yield: the first segment is a
\* MoveTo, a ClosePath is followed by a MoveTo (explicit, or the implicit
\* one the parser inserts), and an error ends the stream
ValidStream(s) ==
  /\ Len(s) > 0 => s[1].op \in {"M", "Err"}
  /\ \A i \in 1..Len(s) - 1 :
       /\ s[i].op # "Err"
       /\ s[i].op = "Z" => s[i + 1].op \in {"M", "Err"}

GenStreams ==
  {s \in UNION {[1..k -> SegAlphabet] : k \in 0..MaxSegs} : ValidStream(s)}

\* documents of one path, under a scale of 1/2 and under a scale of 2 with
\* a descent larger than the height
GenInputs ==
  {Input(PathDoc(Length(2, "None"), Length(2, "Px"), s), 1, 0) : s \in GenStreams}
  \cup {Input(PathDoc(NoLength, Length(2, "None"), s), 4, 3) : s \in GenStreams}

\* the square of the crate's doc example (lib.rs:59-62), closed by Z and
\* also closed by a LineTo that repeats the start
Square == <<SegM(10, 10), SegL(90, 10), SegL(90, 90), SegL(10, 90), SegZ>>
SquareRepeat ==
  <<SegM(10, 10), SegL(90, 10), SegL(90, 90), SegL(10, 90), SegL(10, 10), SegZ>>

ScenarioInputs ==
  {Input(PathDoc(Length(100, "None"), Length(100, "None"), d), em, descent) :
     d \in {Square, SquareRepeat}, em \in {1000, 100}, descent \in {0, 200}}

\* the root's width and height attributes
RootLengths ==
  {NoLength, BadLength, Length(100, "None"), Length(50, "Px"), Length(100, "Mm"),
   Length(10, "Em")}

RootInputs ==
  {Input(PathDoc(w, h, <<SegM(10, 10), SegL(20, 10)>>), 100, 0) :
     w \in RootLengths, h \in RootLengths}

\* inputs that fail before the walk: an unreadable file, malformed XML
BrokenInputs ==
  {[Input(PathDoc(NoLength, NoLength, <<>>), 100, 0) EXCEPT !.readable = FALSE],
   [Input(PathDoc(NoLength, NoLength, <<>>), 100, 0) EXCEPT !.wellformed = FALSE]}

(***************************************************************************)
(* Trees.  One skeleton                                                    *)
(*     1 (root) -> 2, 6, 3        2 -> 4, 5        6: a non-element child  *)
(* with the tags, transforms and contents of the nodes drawn from sets.    *)
(***************************************************************************)
T10 == Translate(10, 0)
Stretch == Matrix(2, 0, 0, 1, 0, 1)
Rot == Matrix(0, 1, -1, 0, 0, 0)

Node2s ==
  {Element(tag, tr, D(<<SegM(2, 2)>>), Text(<<"a">>), NoLength, NoLength,
           <<4, 5>>) :
     tag \in {"g", "defs", "path", "text"},
     tr \in {NoTransform, BadTransform, Transform(T10), Transform(Rot)}}

Node3s ==
  {Path(NoTransform, D(<<SegM(7, 7), SegC(1, 2, 3, 4, 5, 6)>>), <<>>),
   TextEl(NoTransform, Text(<<"t", "o", "p">>), Length(5, "None"), Length(5, "Px"))}

Node4s ==
  {Path(tr, D(<<SegM(1, 0), SegL(0, 1), SegL(1, 0), SegZ, SegM(3, 3)>>), <<>>) :
     tr \in {NoTransform, BadTransform, Transform(Stretch)}}
  \cup {TextEl(tr, Text(<<" ", "b", " ", "c", "TAB">>), Length(1, "None"), NoLength) :
     tr \in {NoTransform, BadTransform, Transform(Stretch)}}

Node5s ==
  {Path(NoTransform, D(<<SegM(0, 0), SegL(10, 0)>>), <<>>),
   Path(NoTransform, D(<<SegM(5, 5), SegL(6, 6), SegErr>>), <<>>),
   Path(NoTransform, NoD, <<>>),
   TextEl(NoTransform, NoText, Length(1, "None"), Length(1, "None")),
   TextEl(NoTransform, Text(<<" ", "TAB">>), Length(1, "None"), Length(1, "None")),
   TextEl(NoTransform, Text(<<"a", "TAB", "b">>), Length(1, "None"), Length(1, "None")),
   TextEl(NoTransform, Text(<<"e">>), Length(7, "Em"), BadLength),
   TextEl(NoTransform, Text(<<"f">>), Length(7, "Mm"), Length(3, "Px"))}

TreeInputs ==
  {Input(<<Root(tag1, tr1, Length(100, "None"), Length(100, "None"), <<2, 6, 3>>),
           n2, n3, n4, n5, NonElement>>, 1000, 0) :
     tag1 \in {"svg"}, tr1 \in {NoTransform, Transform(T10)},
     n2 \in Node2s, n3 \in Node3s, n4 \in Node4s, n5 \in Node5s}

Inputs == GenInputs \cup ScenarioInputs \cup RootInputs \cup BrokenInputs \cup TreeInputs

----------------------------------------------------------------------------
(* State *)

VARIABLES
  inp,         \* the input of the call (never changes)
  pc,          \* "read", "parse", "walk", "path", "encode", "done", "err"
  svg_height,  \* local of convert_svg_string_to_glyph
  scale,       \* local of convert_svg_string_to_glyph
  glyph,       \* the glyph under construction: <<g>> while it exists, else <<>>
  stack,       \* the active calls of process_svg_node, the innermost last
  visited,     \* the nodes process_svg_node was called on, in call order
  segs,        \* process_path_data: the segments the parser has yet to yield
  st,          \* process_path_data: the locals contours and current_contour
  flushed,     \* process_path_data: contours as they stood at lib.rs:358 (last path)
  returned,    \* what convert_svg_string_to_glyph returned: <<g>> for Ok(g)
  written      \* whether fs::write has written the output file

vars ==
  <<inp, pc, svg_height, scale, glyph, stack, visited, segs, st, flushed, returned,
    written>>

Init ==
  /\ inp \in Inputs
  /\ pc = "read"
  /\ svg_height = 0
  /\ scale = Div(0, 1)
  /\ glyph = <<>>
  /\ stack = <<>>
  /\ visited = <<>>
  /\ segs = <<>>
  /\ st = EmptySt
  /\ flushed = <<>>
  /\ returned = <<>>
  /\ written = FALSE

\* a call process_svg_node(node, .., parent_transform) that has not run yet
\* (idx = 0); idx >= 1 is the position of the child loop
Call(node, parent_transform) ==
  [node |-> node, parent_transform |-> parent_transform,
   current_transform |-> parent_transform, idx |-> 0]

Top == stack[Len(stack)]
TopNode == inp.doc[Top.node]
Pop == SubSeq(stack, 1, Len(stack) - 1)
SetTop(frame) == [stack EXCEPT ![Len(stack)] = frame]

\* "Compute current transform" (lib.rs:179-184), for a parsable attribute
CurrentTransform(node, parent_transform) ==
  IF node.transform.present THEN multiply(parent_transform, node.transform.ts)
  ELSE parent_transform

\* a variant of TransformFails that takes a malformed attribute for no attribute
TransformFails_Ignored(node) == FALSE

\* the ? of lib.rs:180
TransformFails(node) == node.transform.present /\ ~node.transform.ok

\* an Err propagated by ? out of convert_svg_string_to_glyph and then out of
\* convert_svg_to_glif_file: every local is dropped, nothing is returned
Fail ==
  /\ pc' = "err"
  /\ glyph' = <<>>
  /\ stack' = <<>>
  /\ segs' = <<>>
  /\ st' = EmptySt
  /\ returned' = <<>>
  /\ UNCHANGED <<inp, svg_height, scale, visited, flushed, written>>

----------------------------------------------------------------------------
(* convert_svg_to_glif_file, convert_svg_to_glyph *)

\* fs::read_to_string(svg_path).context("reading input svg")?
ReadFile ==
  /\ pc = "read"
  /\ inp.readable
  /\ pc' = "parse"
  /\ UNCHANGED <<inp, svg_height, scale, glyph, stack, visited, segs, st, flushed,
                 returned, written>>

ReadFileErr ==
  /\ pc = "read"
  /\ ~inp.readable
  /\ Fail

----------------------------------------------------------------------------
(* convert_svg_string_to_glyph *)

\* root.attribute(name).unwrap_or("100")
AttrOr100(attr) == IF attr.present THEN attr ELSE Length(100, "None")

ParseXmlErr ==
  /\ pc = "parse"
  /\ ~inp.wellformed
  /\ Fail

ParseLengthErr ==
  /\ pc = "parse"
  /\ inp.wellformed
  /\ \/ ~parse_length(AttrOr100(inp.doc[1].width)).ok
     \/ ~parse_length(AttrOr100(inp.doc[1].height)).ok
  /\ Fail

\* lib.rs:79-120 up to the call of process_svg_node on the root
NewGlyph ==
  /\ pc = "parse"
  /\ inp.wellformed
  /\ parse_length(AttrOr100(inp.doc[1].width)).ok
  /\ parse_length(AttrOr100(inp.doc[1].height)).ok
  /\ LET w == parse_length(AttrOr100(inp.doc[1].width)).v
         h == parse_length(AttrOr100(inp.doc[1].height)).v
         sc == Div(inp.em_size, h)
     IN  /\ svg_height' = h
         /\ scale' = sc
         /\ glyph' = <<[width |-> round(Mul(w, sc)), height |-> round(Mul(h, sc)),
                        contours |-> <<>>, anchors |-> <<>>]>>
  /\ stack' = <<Call(1, Identity)>>
  /\ visited' = <<1>>
  /\ pc' = "walk"
  /\ UNCHANGED <<inp, segs, st, flushed, returned, written>>

\* process_svg_node returned Ok to convert_svg_string_to_glyph: Ok(glyph)
ReturnGlyph ==
  /\ pc = "walk"
  /\ stack = <<>>
  /\ returned' = glyph
  /\ glyph' = <<>>
  /\ pc' = "encode"
  /\ UNCHANGED <<inp, svg_height, scale, stack, visited, segs, st, flushed, written>>

\* glyph.encode_xml()?; fs::write(glif_path, glif_data)?
WriteFile ==
  /\ pc = "encode"
  /\ written' = TRUE
  /\ pc' = "done"
  /\ UNCHANGED <<inp, svg_height, scale, glyph, stack, visited, segs, st, flushed,
                 returned>>

----------------------------------------------------------------------------
(* process_svg_node.  A call that has not run yet is the top frame with    *)
(* idx = 0; the Visit actions run it up to its first recursive call, its   *)
(* call of process_path_data, or its return.                               *)

Entering == pc = "walk" /\ stack # <<>> /\ Top.idx = 0

\* Transform::from_str(transform_str).context("parsing transform")?
VisitTransformErr ==
  /\ Entering
  /\ TransformFails(TopNode)
  /\ Fail

\* "path" with a d attribute: process_path_data starts
VisitPath ==
  /\ Entering
  /\ ~TransformFails(TopNode)
  /\ TopNode.tag = "path"
  /\ TopNode.d.present
  /\ stack' = SetTop([Top EXCEPT
                        !.current_transform = CurrentTransform(TopNode, Top.parent_transform),
                        !.idx = 1])
  /\ segs' = TopNode.d.segs
  /\ st' = EmptySt
  /\ pc' = "path"
  /\ UNCHANGED <<inp, svg_height, scale, glyph, visited, flushed, returned, written>>

\* "path" without a d attribute: nothing to do, Ok(())
VisitPathNoD ==
  /\ Entering
  /\ ~TransformFails(TopNode)
  /\ TopNode.tag = "path"
  /\ ~TopNode.d.present
  /\ stack' = Pop
  /\ UNCHANGED <<inp, pc, svg_height, scale, glyph, visited, segs, st, flushed, returned,
                 written>>

\* "text": the anchor, if any, is pushed
VisitText ==
  /\ Entering
  /\ ~TransformFails(TopNode)
  /\ TopNode.tag = "text"
  /\ LET anchor == process_text_as_anchor(TopNode, svg_height, inp.descent, scale,
                     CurrentTransform(TopNode, Top.parent_transform))
     IN  glyph' = <<[glyph[1] EXCEPT !.anchors = @ \o anchor]>>
  /\ stack' = Pop
  /\ UNCHANGED <<inp, pc, svg_height, scale, visited, segs, st, flushed, returned,
                 written>>

\* "g" | "svg": the child loop starts
VisitGroup ==
  /\ Entering
  /\ ~TransformFails(TopNode)
  /\ TopNode.tag \in {"g", "svg"}
  /\ stack' = SetTop([Top EXCEPT
                        !.current_transform = CurrentTransform(TopNode, Top.parent_transform),
                        !.idx = 1])
  /\ UNCHANGED <<inp, pc, svg_height, scale, glyph, visited, segs, st, flushed, returned,
                 written>>

\* a variant of VisitOther that treats an unknown element as a leaf
VisitOther_Leaf ==
  /\ Entering
  /\ ~TransformFails(TopNode)
  /\ TopNode.tag \notin {"path", "text", "g", "svg"}
  /\ stack' = Pop
  /\ UNCHANGED <<inp, pc, svg_height, scale, glyph, visited, segs, st, flushed, returned,
                 written>>

\* any other element: the child loop starts all the same
VisitOther ==
  /\ Entering
  /\ ~TransformFails(TopNode)
  /\ TopNode.tag \notin {"path", "text", "g", "svg"}
  /\ stack' = SetTop([Top EXCEPT
                        !.current_transform = CurrentTransform(TopNode, Top.parent_transform),
                        !.idx = 1])
  /\ UNCHANGED <<inp, pc, svg_height, scale, glyph, visited, segs, st, flushed, returned,
                 written>>

InChildLoop == pc = "walk" /\ stack # <<>> /\ Top.idx >= 1

\* for child in node.children(): an element child is processed recursively
\* with the node's current transform
VisitChild ==
  /\ InChildLoop
  /\ Top.idx <= Len(TopNode.children)
  /\ inp.doc[TopNode.children[Top.idx]].isElement
  /\ stack' = Append(SetTop([Top EXCEPT !.idx = @ + 1]),
                     Call(TopNode.children[Top.idx], Top.current_transform))
  /\ visited' = Append(visited, TopNode.children[Top.idx])
  /\ UNCHANGED <<inp, pc, svg_height, scale, glyph, segs, st, flushed, returned, written>>

\* a child that is no element is passed over
SkipChild ==
  /\ InChildLoop
  /\ Top.idx <= Len(TopNode.children)
  /\ ~inp.doc[TopNode.children[Top.idx]].isElement
  /\ stack' = SetTop([Top EXCEPT !.idx = @ + 1])
  /\ UNCHANGED <<inp, pc, svg_height, scale, glyph, visited, segs, st, flushed, returned,
                 written>>

\* the child loop is over: Ok(())
ReturnFromNode ==
  /\ InChildLoop
  /\ Top.idx > Len(TopNode.children)
  /\ stack' = Pop
  /\ UNCHANGED <<inp, pc, svg_height, scale, glyph, visited, segs, st, flushed, returned,
                 written>>

----------------------------------------------------------------------------
(* process_path_data, one segment of the parser at a time *)

Env ==
  [svg_height |-> svg_height, descent |-> inp.descent, scale |-> scale,
   transform |-> Top.current_transform]

InPath == pc = "path" /\ segs # <<>>

Step(op) ==
  /\ InPath
  /\ Head(segs).op = op
  /\ st' = Arm(st, Head(segs), Env)
  /\ segs' = Tail(segs)
  /\ UNCHANGED <<inp, pc, svg_height, scale, glyph, stack, visited, flushed, returned,
                 written>>

SegMoveTo == Step("M")
SegLineTo == Step("L")
SegCurveTo == Step("C")
SegQuadratic == Step("Q")
SegClosePath == Step("Z")

\* segment.context("parsing path segment")?
SegErr_ ==
  /\ InPath
  /\ Head(segs).op = "Err"
  /\ Fail

\* the parser is exhausted: the remaining contour is added, closing points
\* are removed, Ok(contours) returns to process_svg_node, which extends the
\* glyph's contours and returns
EndOfPath ==
  /\ pc = "path"
  /\ segs = <<>>
  /\ flushed' = Flush(st)
  /\ glyph' = <<[glyph[1] EXCEPT !.contours = @ \o Elide(Flush(st))]>>
  /\ st' = EmptySt
  /\ stack' = Pop
  /\ pc' = "walk"
  /\ UNCHANGED <<inp, svg_height, scale, visited, segs, returned, written>>

----------------------------------------------------------------------------
Next ==
  \/ ReadFile
  \/ ReadFileErr
  \/ ParseXmlErr
  \/ ParseLengthErr
  \/ NewGlyph
  \/ VisitTransformErr
  \/ VisitPath
  \/ VisitPathNoD
  \/ VisitText
  \/ VisitGroup
  \/ VisitOther
  \/ VisitChild
  \/ SkipChild
  \/ ReturnFromNode
  \/ SegMoveTo
  \/ SegLineTo
  \/ SegCurveTo
  \/ SegQuadratic
  \/ SegClosePath
  \/ SegErr_
  \/ EndOfPath
  \/ ReturnGlyph
  \/ WriteFile

Spec == Init /\ [][Next]_vars

----------------------------------------------------------------------------
(* Helpers of the properties *)

\* the glyph as far as it exists: under construction, or returned
Glyphs == glyph \o returned

SameXY(p, q) == p.x = q.x /\ p.y = q.y

IsPrefix(s, t) == Len(s) <= Len(t) /\ SubSeq(t, 1, Len(s)) = s

\* the segments of the current path the loop has consumed so far
Consumed == Len(TopNode.d.segs) - Len(segs)

\* kinds of the specification's point model, in the fields of ContourPoint
OnCurveCorner(p) == p.typ \in {"Move", "Line"} /\ ~p.smooth
OnCurveSmooth(p) == p.typ = "Curve" /\ p.smooth
OffCurve(p) == p.typ = "OffCurve" /\ ~p.smooth

----------------------------------------------------------------------------
(* C1: after process_path_data no emitted contour with more than one point *)
(* ends on the coordinates of its first point.  (The claim as stated.)     *)
C1_NoContourEndsOnItsStart ==
  \A i \in 1..Len(Glyphs) : \A k \in 1..Len(Glyphs[i].contours) :
    LET c == Glyphs[i].contours[k]
    IN  Len(c) > 1 => ~SameXY(c[1], c[Len(c)])

(* C1 as amended: elision removes at most one point of a contour.  Every   *)
(* contour a path emits is its flushed form without the last point when    *)
(* the flushed form has more than one point and ends on the coordinates of *)
(* its first point, and is its flushed form unchanged otherwise; so an     *)
(* emitted contour of more than one point ends on its start only when the  *)
(* flushed contour's last two points both did.                             *)
C1_ElisionDropsOnePoint ==
  \A i \in 1..Len(Glyphs) :
    LET cs == Glyphs[i].contours
        off == Len(cs) - Len(flushed)
    IN  /\ off >= 0
        /\ \A k \in 1..Len(flushed) :
             LET f == flushed[k]
                 e == cs[off + k]
                 closes == Len(f) > 1 /\ SameXY(f[1], f[Len(f)])
             IN  /\ closes => Len(e) = Len(f) - 1
                 /\ ~closes => Len(e) = Len(f)
                 /\ \A j \in 1..Len(e) : e[j] = f[j]
                 /\ (Len(e) > 1 /\ SameXY(e[1], e[Len(e)])) =>
                      /\ Len(f) = Len(e) + 1
                      /\ SameXY(f[Len(f)], f[1])

\* C1 witness: a path has emitted a contour that lost its closing point and
\* still ends on the coordinates of its first point
C1_Witness ==
  /\ Len(Glyphs) = 1
  /\ LET cs == Glyphs[1].contours
     IN  /\ Len(cs) = Len(flushed)
         /\ \E k \in 1..Len(cs) :
              /\ Len(cs[k]) > 1
              /\ Len(cs[k]) = Len(flushed[k]) - 1
              /\ SameXY(cs[k][1], cs[k][Len(cs[k])])

----------------------------------------------------------------------------
(* C2: every MoveTo contributes exactly one point, an on-curve corner      *)
(* (non-smooth) point that starts the contour, not the smooth curve point  *)
(* a CubicCurveTo ends on.  (The claim as stated; the code pushes          *)
(* PointType::Curve with smooth = true.)                                   *)
C2_MoveToIsCorner ==
  [][SegMoveTo =>
       /\ Len(st'.current_contour) = 1
       /\ OnCurveCorner(st'.current_contour[1])
       /\ ~OnCurveSmooth(st'.current_contour[1])]_vars

----------------------------------------------------------------------------
(* C3: a CubicCurveTo appends exactly three points to the current contour, *)
(* OffCurve, OffCurve, OnCurveSmooth in that order, each the transform and *)
(* the coordinate mapping of its own source coordinates; the emitted       *)
(* contours are left alone.                                                *)
C3_CurveToAppendsThree ==
  [][SegCurveTo =>
       LET seg == Head(segs)
           cc == st.current_contour
           n == Len(cc)
           tr == Top.current_transform
           Mapped(x, y) ==
             svg_to_ufo(apply_transform(tr, x, y).x, apply_transform(tr, x, y).y,
                        svg_height, inp.descent, scale)
       IN  /\ st'.contours = st.contours
           /\ Len(st'.current_contour) = n + 3
           /\ SubSeq(st'.current_contour, 1, n) = cc
           /\ OffCurve(st'.current_contour[n + 1])
           /\ OffCurve(st'.current_contour[n + 2])
           /\ OnCurveSmooth(st'.current_contour[n + 3])
           /\ SameXY(st'.current_contour[n + 1], Mapped(seg.x1, seg.y1))
           /\ SameXY(st'.current_contour[n + 2], Mapped(seg.x2, seg.y2))
           /\ SameXY(st'.current_contour[n + 3], Mapped(seg.x, seg.y))]_vars

\* C3 witness: the loop has just consumed a CubicCurveTo under a transform
\* that is not the identity, and the three points differ from one another
C3_Witness ==
  /\ pc = "path"
  /\ Consumed >= 2
  /\ TopNode.d.segs[Consumed].op = "C"
  /\ Top.current_transform # Identity
  /\ LET cc == st.current_contour
         n == Len(cc)
     IN  /\ n >= 4
         /\ ~SameXY(cc[n - 2], cc[n - 1])
         /\ ~SameXY(cc[n - 1], cc[n])
         /\ ~SameXY(cc[n - 2], cc[n])

----------------------------------------------------------------------------
\* a path of the form MoveTo, N LineTo, ClosePath
IsMoveLinesClose(d) ==
  /\ Len(d) >= 2
  /\ d[1].op = "M"
  /\ d[Len(d)].op = "Z"
  /\ \A i \in 2..Len(d) - 1 : d[i].op = "L"

(* C4: a path MoveTo, N LineTo, ClosePath emits one contour, of N + 1      *)
(* points before closing-point elision; when the last LineTo repeats the   *)
(* MoveTo coordinate, elision removes exactly one point and the emitted    *)
(* contour has N points.                                                   *)
C4_MoveLinesClose ==
  [][(EndOfPath /\ IsMoveLinesClose(TopNode.d.segs)) =>
       LET d == TopNode.d.segs
           N == Len(d) - 2
           before == glyph[1].contours
           after == glyph'[1].contours
       IN  /\ Len(flushed') = 1
           /\ Len(flushed'[1]) = N + 1
           /\ Len(after) = Len(before) + 1
           /\ SubSeq(after, 1, Len(before)) = before
           /\ (N >= 1 /\ d[N + 1].x = d[1].x /\ d[N + 1].y = d[1].y) =>
                /\ Len(after[Len(after)]) = N
                /\ after[Len(after)] = SubSeq(flushed'[1], 1, N)]_vars

\* C4 witness: such a path with N >= 2 whose last LineTo repeats the start
\* was converted, N + 1 points before elision and N after
C4_Witness ==
  /\ pc = "done"
  /\ Len(inp.doc) = 2
  /\ LET d == inp.doc[2].d.segs
     IN  /\ IsMoveLinesClose(d)
         /\ Len(d) >= 4
         /\ d[Len(d) - 1].x = d[1].x /\ d[Len(d) - 1].y = d[1].y
         /\ Len(flushed) = 1
         /\ Len(flushed[1]) = Len(d) - 1
         /\ Len(returned[1].contours) = 1
         /\ Len(returned[1].contours[1]) = Len(d) - 2

----------------------------------------------------------------------------
\* a segment stream without its QuadraticCurveTo segments
RemoveQuadratic(d) == SelectSeq(d, LAMBDA seg : seg.op # "Q")

(* C5: a QuadraticCurveTo is a no-op: it leaves the current contour, the   *)
(* emitted contours and the glyph unchanged, and the contours a path emits *)
(* are those of the same path with every QuadraticCurveTo removed.         *)
C5_QuadraticIsNoOp ==
  [][/\ SegQuadratic => (st' = st /\ glyph' = glyph)
     /\ EndOfPath =>
          glyph'[1].contours =
            glyph[1].contours \o
              process_path_data(RemoveQuadratic(TopNode.d.segs), Env).contours]_vars

\* C5 witness: a path that holds a QuadraticCurveTo between drawing
\* commands was converted to a contour of several points
C5_Witness ==
  /\ pc = "done"
  /\ Len(inp.doc) = 2
  /\ LET d == inp.doc[2].d.segs
     IN  /\ \E i \in 2..Len(d) - 1 : d[i].op = "Q" /\ d[i + 1].op \in {"L", "C"}
         /\ Len(returned[1].contours) >= 1
         /\ Len(returned[1].contours[1]) >= 2

----------------------------------------------------------------------------
(* Reference walk: what the document says, computed from the tree alone.   *)

\* the transform attributes on the way from the root to the innermost
\* active call, outermost first (an absent attribute is skipped)
Chain ==
  LET ids == [i \in 1..Len(stack) |-> stack[i].node]
  IN  SelectSeq([i \in 1..Len(ids) |-> inp.doc[ids[i]].transform],
                LAMBDA a : a.present)

\* p under the innermost transform first, then under each enclosing one
RECURSIVE NestedApply(_, _)
NestedApply(chain, p) ==
  IF chain = <<>> THEN p
  ELSE LET q == NestedApply(Tail(chain), p)
       IN  apply_transform(Head(chain).ts, q.x, q.y)

\* sample points on which two transforms are compared
Samples == {[x |-> 0, y |-> 0], [x |-> 1, y |-> 0], [x |-> 0, y |-> 1], [x |-> 3, y |-> -2]}

(* C6: transforms compose parent-then-child with the child applied first.  *)
(* The transform a running call uses maps every point as the enclosing     *)
(* transforms applied one after the other, innermost first, starting from  *)
(* the identity at the root; a node without the attribute uses its         *)
(* parent's transform; and the points of a path are mapped that way.  A    *)
(* path M 0 0 L 10 0 under translate(10,0) has its x offset by 10 source   *)
(* units before mapping.                                                   *)
C6_ChildTransformFirst ==
  /\ \A i \in 1..Len(stack) :
       LET fr == stack[i]
           node == inp.doc[fr.node]
       IN  /\ i = 1 => fr.parent_transform = Identity
           /\ i > 1 => fr.parent_transform = stack[i - 1].current_transform
           /\ (fr.idx >= 1 /\ ~node.transform.present) =>
                fr.current_transform = fr.parent_transform
           /\ (fr.idx >= 1 /\ node.transform.present) =>
                \A p \in Samples :
                  LET inner == apply_transform(node.transform.ts, p.x, p.y)
                  IN  apply_transform(fr.current_transform, p.x, p.y) =
                        apply_transform(fr.parent_transform, inner.x, inner.y)
  /\ (pc = "path" /\ Consumed >= 1 /\ TopNode.d.segs[Consumed].op \in {"M", "L", "C"}) =>
       LET seg == TopNode.d.segs[Consumed]
           q == NestedApply(Chain, [x |-> seg.x, y |-> seg.y])
           cc == st.current_contour
       IN  SameXY(cc[Len(cc)], svg_to_ufo(q.x, q.y, svg_height, inp.descent, scale))
  /\ (pc = "done"
      /\ Len(inp.doc) = 6
      /\ ~inp.doc[1].transform.present
      /\ inp.doc[2].tag = "g"
      /\ inp.doc[2].transform = Transform(Translate(10, 0))
      /\ inp.doc[5].d = D(<<SegM(0, 0), SegL(10, 0)>>)) =>
       \E k \in 1..Len(returned[1].contours) :
         LET c == returned[1].contours[k]
         IN  /\ Len(c) = 2
             /\ SameXY(c[1], [x |-> (0 + 10) * 10, y |-> 1000])
             /\ SameXY(c[2], [x |-> (10 + 10) * 10, y |-> 1000])

\* C6 witness: a point of a path is mapped under three nested transforms
\* that do not commute (a translation, a rotation, a stretch)
C6_Witness ==
  /\ pc = "path"
  /\ Len(stack) = 3
  /\ Len(Chain) = 3
  /\ Consumed >= 2
  /\ st.current_contour # <<>>
  /\ multiply(Chain[2].ts, Chain[1].ts) # multiply(Chain[1].ts, Chain[2].ts)
  /\ multiply(Chain[3].ts, Chain[2].ts) # multiply(Chain[2].ts, Chain[3].ts)

----------------------------------------------------------------------------
\* the elements process_svg_node is to be called on below (and including)
\* node id, in document order: children are entered only through elements
\* that are neither path nor text
RECURSIVE Preorder(_)
Preorder(id) ==
  LET node == inp.doc[id]
      RECURSIVE Kids(_)
      Kids(k) ==
        IF k > Len(node.children) THEN <<>>
        ELSE (IF inp.doc[node.children[k]].isElement
              THEN Preorder(node.children[k]) ELSE <<>>) \o Kids(k + 1)
  IN  IF node.tag \in {"path", "text"} THEN <<id>> ELSE <<id>> \o Kids(1)

\* the transform attributes from the root down to node id, outermost first
RECURSIVE ChainOf(_)
ChainOf(id) ==
  LET up == IF id = 1 THEN <<>>
            ELSE ChainOf(CHOOSE q \in 1..Len(inp.doc) :
                           \E k \in 1..Len(inp.doc[q].children) :
                             inp.doc[q].children[k] = id)
  IN  IF inp.doc[id].transform.present THEN Append(up, inp.doc[id].transform) ELSE up

\* the product of a chain of transforms is replaced, in the reference, by
\* mapping the corners of the unit frame through NestedApply
RefTransform(id) ==
  LET o == NestedApply(ChainOf(id), [x |-> 0, y |-> 0])
      u == NestedApply(ChainOf(id), [x |-> 1, y |-> 0])
      v == NestedApply(ChainOf(id), [x |-> 0, y |-> 1])
  IN  [a |-> u.x - o.x, b |-> u.y - o.y, c |-> v.x - o.x, d |-> v.y - o.y,
       e |-> o.x, f |-> o.y]

RefEnv(id) ==
  [svg_height |-> svg_height, descent |-> inp.descent, scale |-> scale,
   transform |-> RefTransform(id)]

\* the contours, and the anchors, of a sequence of nodes in that order
RECURSIVE RefContours(_)
RefContours(ids) ==
  IF ids = <<>> THEN <<>>
  ELSE LET node == inp.doc[Head(ids)]
       IN  (IF node.tag = "path" /\ node.d.present
            THEN process_path_data(node.d.segs, RefEnv(Head(ids))).contours
            ELSE <<>>) \o RefContours(Tail(ids))

RECURSIVE RefAnchors(_)
RefAnchors(ids) ==
  IF ids = <<>> THEN <<>>
  ELSE LET node == inp.doc[Head(ids)]
       IN  (IF node.tag = "text"
            THEN process_text_as_anchor(node, svg_height, inp.descent, scale,
                                        RefTransform(Head(ids)))
            ELSE <<>>) \o RefAnchors(Tail(ids))

NoDuplicates(s) == \A i, j \in 1..Len(s) : s[i] = s[j] => i = j

\* the nodes whose call has returned: visited, but no longer on the stack
Completed ==
  SelectSeq(visited, LAMBDA id : \A i \in 1..Len(stack) : stack[i].node # id)

C7_State ==
  /\ NoDuplicates(visited)
  /\ pc \in {"walk", "path", "encode", "done"} => IsPrefix(visited, Preorder(1))
  /\ pc \in {"encode", "done"} => visited = Preorder(1)
  /\ pc \in {"walk", "path"} =>
       /\ glyph[1].contours = RefContours(Completed)
       /\ glyph[1].anchors = RefAnchors(Completed)
  /\ pc \in {"encode", "done"} =>
       /\ returned[1].contours = RefContours(Preorder(1))
       /\ returned[1].anchors = RefAnchors(Preorder(1))

C7_Step ==
  (glyph # <<>> /\ glyph' # <<>>) =>
    /\ IsPrefix(glyph[1].contours, glyph'[1].contours)
    /\ IsPrefix(glyph[1].anchors, glyph'[1].anchors)

(* C7: process_svg_node is called exactly once on every element reachable  *)
(* from the root through elements other than path and text, in depth-first *)
(* document order; the contour list and the anchor list only grow at their *)
(* end during the walk; and the glyph holds the contours of its paths, and *)
(* the anchors of its text nodes, in document order.                       *)
C7_DocumentOrder == []C7_State /\ [][C7_Step]_vars

\* C7 witness: a walk through a group and past a non-element child ended
\* with the contours of three paths and nothing visited twice
C7_Witness ==
  /\ pc = "done"
  /\ Len(visited) = 5
  /\ Len(returned[1].contours) >= 4
  /\ \E i \in 1..Len(inp.doc) : ~inp.doc[i].isElement

----------------------------------------------------------------------------
\* a transform attribute that does not parse
MalformedTransform(node) == node.transform.present /\ ~node.transform.ok

\* a path element whose d attribute does not parse
MalformedPathData(node) ==
  /\ node.tag = "path"
  /\ node.d.present
  /\ \E i \in 1..Len(node.d.segs) : node.d.segs[i].op = "Err"

\* the root's width or height (100 when absent) carries an unsupported unit
UnsupportedRootUnit ==
  \E len \in {inp.doc[1].width, inp.doc[1].height} :
    len.present /\ len.parses /\ len.unit \notin {"None", "Px"}

Readable == inp.readable /\ inp.wellformed

NothingReturned == returned = <<>> /\ ~written /\ pc \notin {"encode", "done"}

(* C8: if any node anywhere in the tree has a malformed transform or       *)
(* malformed path data, or the root's width/height has an unsupported      *)
(* unit, the conversion returns an error, no glyph, and writes no file.    *)
(* (The claim as stated.)                                                  *)
C8_AnyMalformedNodeFails ==
  (Readable
   /\ \/ UnsupportedRootUnit
      \/ \E i \in 1..Len(inp.doc) :
           /\ inp.doc[i].isElement
           /\ MalformedTransform(inp.doc[i]) \/ MalformedPathData(inp.doc[i]))
  => NothingReturned

(* C8 as amended: if any node the walk reaches (the root, or an element    *)
(* all of whose ancestors are elements other than path and text) has a     *)
(* malformed transform attribute or malformed path data, or the root's     *)
(* width/height has an unsupported unit, the conversion ends in an error,  *)
(* returns no glyph (the contours and anchors collected before the failing *)
(* node are dropped) and writes no file.  A malformed node under a path or *)
(* text element is never looked at and fails nothing.                      *)
C8_MalformedReachedNodeFails ==
  /\ (Readable
      /\ \/ UnsupportedRootUnit
         \/ \E k \in 1..Len(Preorder(1)) :
              \/ MalformedTransform(inp.doc[Preorder(1)[k]])
              \/ MalformedPathData(inp.doc[Preorder(1)[k]]))
     => (NothingReturned /\ (pc = "err" \/ ENABLED Next))
  /\ pc = "err" => (glyph = <<>> /\ returned = <<>> /\ ~written /\ ~ENABLED Next)

\* C8 witness: the conversion failed at a node after a path had already
\* contributed contours, and nothing is left of them
C8_Witness ==
  /\ pc = "err"
  /\ Len(visited) >= 3
  /\ flushed # <<>>
  /\ glyph = <<>>
  /\ returned = <<>>
  /\ ~written

----------------------------------------------------------------------------
\* the positions of the characters of s that are not whitespace
Ink(s) == {i \in 1..Len(s) : ~IsWhitespace(s[i])}
Least(S) == CHOOSE i \in S : \A j \in S : i <= j
Greatest(S) == CHOOSE i \in S : \A j \in S : i >= j

\* the value of an x or y attribute of a text node, 0 by default
Coordinate(attr) ==
  IF attr.present /\ attr.parses /\ attr.unit \in {"None", "Px"} THEN attr.number ELSE 0

(* C9: a text node yields at most one anchor.  Content that is not empty   *)
(* after trimming and is a valid name yields exactly one anchor, named     *)
(* with the trimmed content, at the mapped position of the node's x/y      *)
(* attributes (default 0,0) under the effective transform; absent, empty,  *)
(* whitespace-only or invalid content yields no anchor and no error, and   *)
(* the walk goes on.                                                       *)
C9_TextYieldsAtMostOneAnchor ==
  [][VisitText =>
       LET node == TopNode
           s == node.text.chars
           inked == node.text.present /\ Ink(s) # {}
           name == SubSeq(s, Least(Ink(s)), Greatest(Ink(s)))
           valid == inked /\ \A i \in 1..Len(name) : name[i] # "TAB"
           q == NestedApply(Chain, [x |-> Coordinate(node.x), y |-> Coordinate(node.y)])
           at == svg_to_ufo(q.x, q.y, svg_height, inp.descent, scale)
       IN  /\ pc' = "walk"
           /\ stack' = Pop
           /\ glyph'[1].contours = glyph[1].contours
           /\ valid => glyph'[1].anchors =
                         Append(glyph[1].anchors, [x |-> at.x, y |-> at.y, name |-> name])
           /\ ~valid => glyph'[1].anchors = glyph[1].anchors]_vars

\* C9 witness: a conversion ended with an anchor named by trimmed content,
\* having passed a text node with an invalid name and visited a later node
C9_Witness ==
  /\ pc = "done"
  /\ visited = <<1, 2, 4, 5, 3>>
  /\ inp.doc[4].tag = "text"
  /\ inp.doc[4].transform.present
  /\ inp.doc[5].text = Text(<<"a", "TAB", "b">>)
  /\ inp.doc[3].tag = "text"
  /\ Len(returned[1].anchors) = 2
  /\ returned[1].anchors[1].name = <<"b", " ", "c">>
  /\ returned[1].anchors[2].name = <<"t", "o", "p">>

----------------------------------------------------------------------------
Magnitude(i) == IF i < 0 THEN -i ELSE i

\* r is n/d (d > 0) rounded to the nearest integer, halves away from zero
IsRounded(r, n, d) ==
  /\ 2 * Magnitude(r * d - n) <= d
  /\ 2 * Magnitude(r * d - n) = d => Magnitude(r) * d > Magnitude(n)

\* the root's height as the code reads it
RootHeight == IF inp.doc[1].height.present THEN inp.doc[1].height.number ELSE 100

\* the x and y of the points of a contour
Coordinates(c) == [i \in 1..Len(c) |-> <<c[i].x, c[i].y>>]

SquareInput(em_size, descent) ==
  /\ pc = "done"
  /\ inp.doc = PathDoc(Length(100, "None"), Length(100, "None"), Square)
  /\ inp.em_size = em_size
  /\ inp.descent = descent

(* C10: svg_to_ufo maps a transformed point (x', y') to                    *)
(* x = round(x' * scale), y = round((height - descent - y') * scale) with  *)
(* scale = emSize / height and without clamping.  The square               *)
(* M 10 10 L 90 10 L 90 90 L 10 90 Z of a 100x100 document with emSize     *)
(* 1000 gives (100,900),(900,900),(900,100),(100,100) with descent 0 and   *)
(* y = (100 - 200 - y_src) * 10 with descent 200; with scale 1 and descent *)
(* 0 the point (x, y) maps to (x, h - y).                                  *)
C10_MapperFormula ==
  /\ pc \in {"walk", "path"} =>
       svg_height = RootHeight /\ scale.n * svg_height = inp.em_size * scale.d
  /\ (pc = "path" /\ Consumed >= 1 /\ TopNode.d.segs[Consumed].op \in {"M", "L", "C"}) =>
       LET seg == TopNode.d.segs[Consumed]
           t == apply_transform(Top.current_transform, seg.x, seg.y)
           p == st.current_contour[Len(st.current_contour)]
       IN  /\ IsRounded(p.x, t.x * inp.em_size, RootHeight)
           /\ IsRounded(p.y, (RootHeight - inp.descent - t.y) * inp.em_size, RootHeight)
  /\ SquareInput(1000, 0) =>
       /\ Len(returned[1].contours) = 1
       /\ Coordinates(returned[1].contours[1]) =
            <<<<100, 900>>, <<900, 900>>, <<900, 100>>, <<100, 100>>>>
  /\ SquareInput(1000, 200) =>
       /\ Len(returned[1].contours) = 1
       /\ Coordinates(returned[1].contours[1]) =
            [i \in 1..4 |-> <<Square[i].x * 10, (100 - 200 - Square[i].y) * 10>>]
  /\ SquareInput(100, 0) =>
       /\ Len(returned[1].contours) = 1
       /\ Coordinates(returned[1].contours[1]) =
            [i \in 1..4 |-> <<Square[i].x, 100 - Square[i].y>>]

\* C10 witness: the square under descent 200 came out below the baseline,
\* its negative coordinates kept
C10_Witness ==
  /\ SquareInput(1000, 200)
  /\ \A i \in 1..4 : returned[1].contours[1][i].y < -1000

\* C10 witness of the rounding: a half was rounded away from zero, on the
\* negative side
C10_WitnessHalf ==
  /\ pc = "path"
  /\ Consumed >= 1
  /\ TopNode.d.segs[Consumed].op = "C"
  /\ scale = Div(1, 2)
  /\ st.current_contour[Len(st.current_contour) - 2].x = -1

----------------------------------------------------------------------------
\* the positions of the MoveTo segments of a stream, in order
MovePositions(d) == SelectSeq([i \in 1..Len(d) |-> i], LAMBDA i : d[i].op = "M")

\* contours with the buffer added to them when it is not empty
WithBuffer(contours, buffer) ==
  IF buffer # <<>> THEN Append(contours, buffer) ELSE contours

NoEmptyContour(contours) == \A k \in 1..Len(contours) : Len(contours[k]) >= 1

C11_State ==
  /\ NoEmptyContour(st.contours)
  /\ NoEmptyContour(flushed)
  /\ \A i \in 1..Len(Glyphs) : NoEmptyContour(Glyphs[i].contours)

C11_Step ==
  /\ (SegMoveTo \/ SegClosePath) =>
       st'.contours = WithBuffer(st.contours, st.current_contour)
  /\ SegMoveTo => Len(st'.current_contour) = 1
  /\ SegClosePath =>
       /\ st'.current_contour = <<>>
       /\ st.current_contour = <<>> => st' = st
  /\ (SegLineTo \/ SegCurveTo \/ SegQuadratic) => st'.contours = st.contours
  /\ EndOfPath =>
       LET d == TopNode.d.segs
           moves == MovePositions(d)
           before == Len(glyph[1].contours)
           emitted == SubSeq(glyph'[1].contours, before + 1, Len(glyph'[1].contours))
       IN  /\ flushed' = WithBuffer(st.contours, st.current_contour)
           /\ Len(emitted) = Len(flushed')
           /\ Len(emitted) = Len(moves)
           /\ \A k \in 1..Len(moves) :
                (moves[k] = Len(d) \/ d[moves[k] + 1].op \in {"M", "Z"}) =>
                  LET t == apply_transform(Top.current_transform,
                                           d[moves[k]].x, d[moves[k]].y)
                  IN  /\ Len(emitted[k]) = 1
                      /\ SameXY(emitted[k][1],
                                svg_to_ufo(t.x, t.y, svg_height, inp.descent, scale))

(* C11: process_path_data emits a contour exactly when the buffer is not   *)
(* empty at a MoveTo, at a ClosePath or at the end of the segments;        *)
(* ClosePath adds no point and changes nothing on an empty buffer.  No     *)
(* emitted contour is empty, before or after closing-point elision, and a  *)
(* MoveTo followed at once by a MoveTo, a ClosePath or the end of the      *)
(* input is emitted as a contour of one point.                             *)
C11_ContoursEmittedWhenBufferNonEmpty == []C11_State /\ [][C11_Step]_vars

\* C11 witness: a path MoveTo MoveTo ClosePath MoveTo was converted to
\* three contours of one point each
C11_Witness ==
  /\ pc = "done"
  /\ Len(inp.doc) = 2
  /\ LET d == inp.doc[2].d.segs
     IN  /\ Len(d) = 4
         /\ d[1].op = "M" /\ d[2].op = "M" /\ d[3].op = "Z" /\ d[4].op = "M"
  /\ Len(returned[1].contours) = 3
  /\ \A k \in 1..3 : Len(returned[1].contours[k]) = 1

----------------------------------------------------------------------------
EndsWithClosePath(d) == d # <<>> /\ d[Len(d)].op = "Z"

(* C12: a trailing ClosePath does not show in the output of                *)
(* process_path_data.  The contours a path without a trailing ClosePath    *)
(* emits are those of the same segments followed by ClosePath, and the     *)
(* contours a path with a trailing ClosePath emits are those of the        *)
(* segments before it: same contours, same points, same kinds.             *)
C12_TrailingClosePathInvisible ==
  [][EndOfPath =>
       LET d == TopNode.d.segs
           before == Len(glyph[1].contours)
           emitted == SubSeq(glyph'[1].contours, before + 1, Len(glyph'[1].contours))
       IN  /\ ~EndsWithClosePath(d) =>
                emitted = process_path_data(Append(d, SegZ), Env).contours
           /\ EndsWithClosePath(d) =>
                emitted = process_path_data(SubSeq(d, 1, Len(d) - 1), Env).contours]_vars

\* C12 witness: a path that ends with ClosePath after a LineTo back to its
\* start was converted to one contour, its closing point removed
C12_Witness ==
  /\ pc = "done"
  /\ Len(inp.doc) = 2
  /\ LET d == inp.doc[2].d.segs
     IN  /\ Len(d) = 4
         /\ d[1].op = "M" /\ d[2].op = "L" /\ d[3].op = "L" /\ d[4].op = "Z"
         /\ d[3].x = d[1].x /\ d[3].y = d[1].y
         /\ ~SameXY(flushed[1][1], flushed[1][2])
  /\ Len(flushed) = 1
  /\ Len(flushed[1]) = 3
  /\ Len(returned[1].contours) = 1
  /\ Len(returned[1].contours[1]) = 2

----------------------------------------------------------------------------
\* an attribute that is there and is no unitless or px length
Unusable(attr) ==
  attr.present /\ (~attr.parses \/ attr.unit \notin {"None", "Px"})

(* C13: an x or y attribute of a text node that does not parse as a        *)
(* length, or has a unit other than unitless/px, never fails the           *)
(* conversion: that coordinate counts as 0 and the anchor is still         *)
(* emitted; the same unsupported unit on the root's width or height is a   *)
(* fatal error.                                                            *)
C13_TextLengthErrorsAreZero ==
  [][/\ (VisitText /\ (Unusable(TopNode.x) \/ Unusable(TopNode.y))) =>
          LET node == TopNode
              s == node.text.chars
              inked == node.text.present /\ Ink(s) # {}
              name == SubSeq(s, Least(Ink(s)), Greatest(Ink(s)))
              valid == inked /\ \A i \in 1..Len(name) : name[i] # "TAB"
              cx == IF Unusable(node.x) \/ ~node.x.present THEN 0 ELSE node.x.number
              cy == IF Unusable(node.y) \/ ~node.y.present THEN 0 ELSE node.y.number
              q == NestedApply(Chain, [x |-> cx, y |-> cy])
              at == svg_to_ufo(q.x, q.y, svg_height, inp.descent, scale)
          IN  /\ pc' = "walk"
              /\ valid => glyph'[1].anchors =
                            Append(glyph[1].anchors,
                                   [x |-> at.x, y |-> at.y, name |-> name])
     /\ (pc = "parse" /\ inp.wellformed /\ UnsupportedRootUnit) =>
          (pc' = "err" /\ glyph' = <<>> /\ returned' = <<>> /\ ~written')]_vars

\* C13 witness: a text node with x in millimetres and y in px gave an
\* anchor at x = 0 and at the mapped y
C13_Witness ==
  /\ pc = "done"
  /\ Len(inp.doc) = 6
  /\ ~inp.doc[1].transform.present
  /\ inp.doc[2].tag = "g"
  /\ ~inp.doc[2].transform.present
  /\ inp.doc[5].tag = "text"
  /\ inp.doc[5].x = Length(7, "Mm")
  /\ inp.doc[5].y = Length(3, "Px")
  /\ \E k \in 1..Len(returned[1].anchors) :
       returned[1].anchors[k] = [x |-> 0, y |-> (100 - 3) * 10, name |-> <<"f">>]

====
